---- MODULE Spec2Model ----
(***************************************************************************)
(* Model of the MCP protocol server (src/src/server.rs): the run loop,     *)
(* the request router, the three handler maps behind tokio RwLocks, and    *)
(* the set_*_handler registration calls issued by other tasks.             *)
(***************************************************************************)
EXTENDS Integers, Sequences, FiniteSets, TLC

\* ------------------------------------------------------------------ bounds
\* Number of requests the transports deliver, over all run loops, before
\* they are closed.
MaxReq == 2

\* Tasks that call Server::run on the shared server, each with its own
\* transport, and tasks that call set_*_handler on it.
Loops == {"L1", "L2"}
Registrars == {"R1", "R2"}

\* Tool / prompt names and resource URIs that occur in requests.
Names == {"a", "b"}
\* The closures handed to set_*_handler.
HandlerFns == {"h1", "h2"}
\* Closures that call back into the server before they return: "hs" calls
\* the set_*_handler of the map it is registered in, for its own key; "hx",
\* registered for a tool, calls set_prompt_handler.  Both install h1, await
\* the call and return Ok.
ReentrantFns == {"hs", "hx"}
\* Failures a transport operation can return.
TransportErrors == {"Transport", "Io"}

\* ------------------------------------------------------- Option<T> as a set
None == {}
Some(x) == {x}
Unwrap(o) == CHOOSE x \in o : TRUE

\* ------------------------------------------------------------ the registry
\* The three RwLock<HashMap<String, _>> fields of Server.
Cat == {"tool_handlers", "resource_handlers", "prompt_handlers"}

\* The fixed key of the single resource slot.
DEFAULT_KEY == "default"

KeysOf(c) == IF c = "resource_handlers" THEN {DEFAULT_KEY} ELSE Names
Keys == Names \cup {DEFAULT_KEY}

\* A HashMap is a set of <<key, handler>> entries.
HashMap_new == {}

HashMap_get(m, k) == {e[2] : e \in {x \in m : x[1] = k}}

\* The keys of the entries of a map.
KeysIn(m) == {e[1] : e \in m}

\* Mutant: the map is rebuilt with the new entry alone.
HashMap_insert_alone(m, k, h) == {<<k, h>>}

\* Mutant: a multimap; the new entry is put beside the old one.
HashMap_insert_beside(m, k, h) == m \cup {<<k, h>>}

\* Mutant: the entry API without overwrite, the first registration stays.
HashMap_insert_or_keep(m, k, h) ==
    IF \E e \in m : e[1] = k THEN m ELSE m \cup {<<k, h>>}

HashMap_insert(m, k, h) == {e \in m : e[1] # k} \cup {<<k, h>>}

\* ---------------------------------------------------------------- requests
RoutedMethods ==
    {"initialize", "tools/list", "tools/call", "resources/list",
     "resources/read", "prompts/list", "prompts/get"}
Methods == RoutedMethods \cup {"ping", "notifications/initialized"}

\* A JSON field of the params object: a string, a value of another JSON
\* type, or not there.
Missing == "<missing>"
NonString == "<non-string>"

\* params: absent, or a JSON value of which only the "name" and "uri"
\* members matter to the three typed requests.
NoParams == [present |-> FALSE, name |-> Missing, uri |-> Missing]
Params(name, uri) == [present |-> TRUE, name |-> name, uri |-> uri]
ParamsSet ==
    {NoParams, Params(NonString, Missing)} \cup
    {Params(Missing, u) : u \in Names} \cup {Params(n, Missing) : n \in Names}

CallMethods == {"tools/call", "resources/read", "prompts/get"}

\* The requests a transport may deliver.  The i-th request of a transport
\* carries the identifier i.  The methods that never read their params are
\* sent without.
Requests(id) ==
    [id : {id}, method : CallMethods, params : ParamsSet] \cup
    [id : {id}, method : Methods \ CallMethods, params : {NoParams}]

\* The transport of L1 delivers any request; the transports of the other
\* loops deliver the well-formed calls only.
Inbox(l, id) ==
    IF l = "L1" THEN Requests(id)
    ELSE {req \in Requests(id) :
             /\ req.method \in CallMethods
             /\ req.params \in {Params(n, Missing) : n \in Names} \cup {Params(Missing, "a")}
             /\ (req.method = "resources/read") = (req.params.uri # Missing)}

\* serde_json::from_value into CallToolRequest / GetPromptRequest (a required
\* string "name") and ReadResourceRequest (a required string "uri"),
\* after request.params.as_ref(): None when params is absent or does not
\* decode.
decode_CallToolRequest(params) ==
    IF params.present /\ params.name \in Names
    THEN Some([name |-> params.name]) ELSE None

decode_ReadResourceRequest(params) ==
    IF params.present /\ params.uri \in Names
    THEN Some([uri |-> params.uri]) ELSE None

decode_GetPromptRequest(params) ==
    IF params.present /\ params.name \in Names
    THEN Some([name |-> params.name]) ELSE None

\* --------------------------------------------------------------- responses
\* McpError constructors: an error class, the message given to it, no data.
McpError_method_not_found(msg) ==
    [code |-> "MethodNotFound", message |-> msg, data |-> None]
McpError_invalid_params(msg) ==
    [code |-> "InvalidParams", message |-> msg, data |-> None]

\* What a handler future resolves to: Ok(value) or Err(error), the error
\* a McpError with its code, message and data.
HandlerValues == {"v1"}
HandlerErrors ==
    {[code |-> "HandlerError", message |-> <<"e1">>, data |-> Some("d1")]}

\* The result of a handler, serialized: which closure made it, and its value.
Result(kind, value) == [kind |-> kind, value |-> value]

Ok(v) == [value |-> Some(v), error |-> None]
Err(e) == [value |-> None, error |-> Some(e)]

JsonRpcResponse_success(id, result) ==
    [id |-> id, result |-> Some(result), error |-> None]
JsonRpcResponse_error(id, error) ==
    [id |-> id, result |-> None, error |-> Some(error)]

\* The class of a response: "result", or the code of its error.
Outcome(resp) == IF resp.error = None THEN "result" ELSE Unwrap(resp.error).code

NoResponse == [id |-> 0, result |-> None, error |-> None]
NoRequest == [id |-> 0, method |-> "none", params |-> NoParams]

\* ----------------------------------------------------------- ServerBuilder
\* A descriptor (Tool, Resource, Prompt) is taken by its name.  The builder
\* holds the name and version given to new and the lists the with_* calls
\* pushed to, in the order of the calls.
ServerBuilder(tools, resources, prompts) ==
    [name |-> "srv", version |-> "1",
     tools |-> tools, resources |-> resources, prompts |-> prompts]

\* The builders tried: no descriptor at all; resources and prompts (one
\* prompt pushed twice); tools and resources.  Every two of the three
\* lists differ in emptiness in one of them.
Builders ==
    {ServerBuilder(<<>>, <<>>, <<>>),
     ServerBuilder(<<>>, <<"r1">>, <<"p1", "p1">>),
     ServerBuilder(<<"b", "a">>, <<"r1", "r2">>, <<>>)}

\* The builder of the runs that are not about the descriptor lists.
DefaultBuilder == ServerBuilder(<<"b", "a">>, <<>>, <<"p1">>)

MCP_VERSION == "MCP_VERSION"

\* ServerBuilder::build: the capabilities and the immutable fields of Server.
build(b) ==
    [info |-> [name |-> b.name, version |-> b.version],
     capabilities |->
        [tools |-> IF b.tools = <<>> THEN None
                   ELSE Some([list_changed |-> None]),
         resources |-> IF b.resources = <<>> THEN None
                       ELSE Some([subscribe |-> None, list_changed |-> None]),
         prompts |-> IF b.prompts = <<>> THEN None
                     ELSE Some([list_changed |-> None]),
         logging |-> Some("LoggingCapability"),
         experimental |-> None],
     tools |-> b.tools,
     resources |-> b.resources,
     prompts |-> b.prompts]

\* ----------------------------------------------------------- registrations
Registration(c, k, h) == [cat |-> c, key |-> k, h |-> h]

\* The set_*_handler calls each registering task makes in one run of the
\* program: one task setting and replacing entries of one map, one task
\* putting one entry on each map, or two tasks setting the same tool.
OneTask(regs) == [r \in Registrars |-> IF r = "R1" THEN regs ELSE {}]

Workloads ==
    {OneTask({Registration("tool_handlers", "a", "h1"),
              Registration("tool_handlers", "a", "h2"),
              Registration("tool_handlers", "b", "h1")}),
     OneTask({Registration("prompt_handlers", "a", h) : h \in HandlerFns}),
     OneTask({Registration("resource_handlers", DEFAULT_KEY, h) : h \in HandlerFns}),
     OneTask({Registration("tool_handlers", "a", "h1"),
              Registration("prompt_handlers", "a", "h1"),
              Registration("resource_handlers", DEFAULT_KEY, "h1")}),
     [r \in Registrars |->
         {Registration("tool_handlers", "a", IF r = "R1" THEN "h1" ELSE "h2")}]}

\* ------------------------------------------------------------------- state
VARIABLES
    server,         \* info, capabilities, tools, resources, prompts of Server
    registry,       \* registry[c]: the HashMap behind lock c
    lockReaders,    \* lockReaders[c]: tasks holding a read guard of c
    lockQueue,      \* lockQueue[c]: FIFO of tasks waiting in read()/write()
    pc,             \* pc[l]: where run loop l stands
    request,        \* request[l]: the request being handled
    typed,          \* typed[l]: the name / uri of the decoded typed request
    running,        \* running[l]: the handler being awaited, as Option
    response,       \* response[l]: the response to send
    run_result,     \* run_result[l]: what Server::run returned, as Option
    regPc,          \* regPc[r]: where registrar r stands
    regArg,         \* regArg[r]: the pending set_*_handler call
    workload,       \* workload[r]: the registrations task r makes in this run
    \* history
    builder,        \* the ServerBuilder that build consumed
    initialized,    \* number of initialize requests received so far
    resolved,       \* resolved[l]: what the awaited handler returned, as Option
    reqLog,         \* ids of the requests received by loop l
    respLog,        \* ids of the responses sent by loop l
    lastOutcome,    \* outcome of the response loop l sent last
    ops,            \* transport operations of loop l, in order
    stats,          \* per current request: dispatches, lookups, invocations
    lastCompleted,  \* per map and key: handler of the latest completed set
    failed          \* the transport failure that ended loop l, as Option

vars == <<registry, lockReaders, lockQueue, pc, request, typed, running,
          response, run_result, regPc, regArg, workload, reqLog, respLog,
          lastOutcome, ops, stats, lastCompleted, failed, server, builder,
          initialized, resolved>>

regVars == <<regPc, regArg, workload>>
mapVars == <<registry, lastCompleted>>
logVars == <<reqLog, respLog, lastOutcome, ops>>
serverVars == <<server, builder>>

ZeroStats == [dispatched |-> 0, lookups |-> 0, invoked |-> 0]
NoArg == Registration("tool_handlers", "a", "h1")
NoKey == "<none>"

\* The state after ServerBuilder::build of builder b, with the tasks of
\* registration workload w: the three maps start empty.
Built(b, w) ==
    /\ builder = b
    /\ server = build(b)
    /\ workload = w
    /\ initialized = 0
    /\ resolved = [l \in Loops |-> None]
    /\ registry = [c \in Cat |-> HashMap_new]
    /\ lockReaders = [c \in Cat |-> {}]
    /\ lockQueue = [c \in Cat |-> <<>>]
    /\ pc = [l \in Loops |-> "receive"]
    /\ request = [l \in Loops |-> NoRequest]
    /\ typed = [l \in Loops |-> NoKey]
    /\ running = [l \in Loops |-> None]
    /\ response = [l \in Loops |-> NoResponse]
    /\ run_result = [l \in Loops |-> None]
    /\ regPc = [r \in Registrars |-> "idle"]
    /\ regArg = [r \in Registrars |-> NoArg]
    /\ reqLog = [l \in Loops |-> <<>>]
    /\ respLog = [l \in Loops |-> <<>>]
    /\ lastOutcome = [l \in Loops |-> "none"]
    /\ ops = [l \in Loops |-> <<>>]
    /\ stats = [l \in Loops |-> ZeroStats]
    /\ lastCompleted = [c \in Cat |-> [k \in Keys |-> None]]
    /\ failed = [l \in Loops |-> None]

Init == \E w \in Workloads : Built(DefaultBuilder, w)

\* The runs about the descriptor lists: any builder, and one task that puts
\* a handler on each of the three maps.
BuildWorkload ==
    OneTask({Registration("tool_handlers", "a", "h1"),
             Registration("prompt_handlers", "a", "h1"),
             Registration("resource_handlers", DEFAULT_KEY, "h1")})

BuildInit == \E b \in Builders : Built(b, BuildWorkload)

\* ------------------------------------------------------- tokio::sync::RwLock
\* The lock is fair.  read() returns at once unless a writer is queued;
\* write() returns at once when no guard is out and nobody is queued.
\* Otherwise the caller joins one FIFO queue: a queued reader is let in when
\* no writer is queued ahead of it, a queued writer when it is at the head
\* and no read guard is out.  A write guard is taken, used for one insert
\* and dropped inside one statement, so it is never seen held.
Waiter(t, mode) == [task |-> t, mode |-> mode]

Position(c, t) ==
    IF \E i \in 1..Len(lockQueue[c]) : lockQueue[c][i].task = t
    THEN CHOOSE i \in 1..Len(lockQueue[c]) : lockQueue[c][i].task = t
    ELSE 0

Without(q, i) == [j \in 1..(Len(q) - 1) |-> IF j < i THEN q[j] ELSE q[j + 1]]

WriterQueued(c) == \E i \in 1..Len(lockQueue[c]) : lockQueue[c][i].mode = "write"

\* read() / write() complete without waiting.
ReadNow(c) == ~WriterQueued(c)

\* Mutant: one lock for the three maps.
WriteNow_one_lock(c) ==
    \A x \in Cat : lockReaders[x] = {} /\ lockQueue[x] = <<>>

WriteNow(c) == lockReaders[c] = {} /\ lockQueue[c] = <<>>

\* A queued read() / write() completes.
ReadGrantable(c, t) ==
    /\ Position(c, t) > 0
    /\ \A j \in 1..(Position(c, t) - 1) : lockQueue[c][j].mode = "read"

WriteGrantable(c, t) ==
    /\ Position(c, t) = 1
    /\ lockReaders[c] = {}

\* ------------------------------------------------------------ registration
\* insert(key, handler) under the write guard.
Insert(a) ==
    /\ registry' = [registry EXCEPT ![a.cat] = HashMap_insert(@, a.key, a.h)]
    /\ lastCompleted' = [lastCompleted EXCEPT ![a.cat][a.key] = Some(a.h)]

\* self.<map>.write().await.insert(key, boxed_handler): done at once when
\* the lock is free, otherwise the call waits in the queue.
SetHandler(r, c, k, h) ==
    /\ regPc[r] = "idle"
    /\ Registration(c, k, h) \in workload[r]
    /\ IF WriteNow(c)
       THEN /\ Insert(Registration(c, k, h))
            /\ UNCHANGED <<lockQueue, regPc, regArg>>
       ELSE /\ lockQueue' = [lockQueue EXCEPT ![c] = Append(@, Waiter(r, "write"))]
            /\ regPc' = [regPc EXCEPT ![r] = "write_wait"]
            /\ regArg' = [regArg EXCEPT ![r] = Registration(c, k, h)]
            /\ UNCHANGED mapVars
    /\ UNCHANGED <<lockReaders, workload>>
    /\ UNCHANGED <<serverVars, initialized, resolved>>
    /\ UNCHANGED <<pc, request, typed, running, response, run_result, reqLog,
                   respLog, lastOutcome, ops, stats, failed>>

set_tool_handler(r, name, h) ==
    SetHandler(r, "tool_handlers", name, h)

set_resource_handler(r, h) ==
    SetHandler(r, "resource_handlers", DEFAULT_KEY, h)

set_prompt_handler(r, name, h) ==
    SetHandler(r, "prompt_handlers", name, h)

\* The queued write() is granted: insert, guard dropped, the call returns.
write_granted(r) ==
    /\ regPc[r] = "write_wait"
    /\ WriteGrantable(regArg[r].cat, r)
    /\ Insert(regArg[r])
    /\ lockQueue' = [lockQueue EXCEPT ![regArg[r].cat] = Without(@, Position(regArg[r].cat, r))]
    /\ regPc' = [regPc EXCEPT ![r] = "idle"]
    /\ regArg' = [regArg EXCEPT ![r] = NoArg]
    /\ UNCHANGED <<lockReaders, workload>>
    /\ UNCHANGED <<serverVars, initialized, resolved>>
    /\ UNCHANGED <<pc, request, typed, running, response, run_result, reqLog,
                   respLog, lastOutcome, ops, stats, failed>>

\* ---------------------------------------------------------- handle_request
\* What a handle_* function does before its first await: it answers, or it
\* goes on to read() the lock of map `cat` and to look `key` up there.
Answer(resp) ==
    [answer |-> Some(resp), cat |-> "tool_handlers", key |-> NoKey,
     typed |-> NoKey, notFound |-> <<>>]

LookUp(c, key, typedKey, notFound) ==
    [answer |-> None, cat |-> c, key |-> key, typed |-> typedKey,
     notFound |-> notFound]

\* The InitializeResult that handle_initialize builds.
InitializeResult(capabilities) ==
    [protocol_version |-> MCP_VERSION,
     capabilities |-> capabilities,
     server_info |-> server.info,
     instructions |-> None]

\* Mutant: the capabilities are worked out from the handler maps at the
\* time of the request.
handle_initialize_from_handlers(req) ==
    Answer(JsonRpcResponse_success(req.id, InitializeResult(
        [server.capabilities EXCEPT
            !.tools = IF registry["tool_handlers"] = HashMap_new THEN None
                      ELSE Some([list_changed |-> None])])))

handle_initialize(req) ==
    Answer(JsonRpcResponse_success(req.id, InitializeResult(server.capabilities)))

\* Mutant: only the tools that have a handler are listed.
handle_list_tools_with_handler(req) ==
    LET has_handler(t) == HashMap_get(registry["tool_handlers"], t) # None IN
    Answer(JsonRpcResponse_success(req.id,
        [tools |-> SelectSeq(server.tools, has_handler), next_cursor |-> None]))

handle_list_tools(req) ==
    Answer(JsonRpcResponse_success(req.id,
        [tools |-> server.tools, next_cursor |-> None]))

handle_list_resources(req) ==
    Answer(JsonRpcResponse_success(req.id,
        [resources |-> server.resources, next_cursor |-> None]))

handle_list_prompts(req) ==
    Answer(JsonRpcResponse_success(req.id,
        [prompts |-> server.prompts, next_cursor |-> None]))

\* Mutant: the not-found message does not name the tool.
handle_call_tool_unnamed(req) ==
    LET d == decode_CallToolRequest(req.params) IN
    IF d = None
    THEN Answer(JsonRpcResponse_error(req.id,
                    McpError_invalid_params(<<"Invalid tool request">>)))
    ELSE LookUp("tool_handlers", Unwrap(d).name, Unwrap(d).name,
                <<"Tool not found">>)

handle_call_tool(req) ==
    LET d == decode_CallToolRequest(req.params) IN
    IF d = None
    THEN Answer(JsonRpcResponse_error(req.id,
                    McpError_invalid_params(<<"Invalid tool request">>)))
    ELSE LookUp("tool_handlers", Unwrap(d).name, Unwrap(d).name,
                <<"Tool not found: ", Unwrap(d).name>>)

\* Mutant: the resource handler is looked up under the requested URI.
handle_read_resource_by_uri(req) ==
    LET d == decode_ReadResourceRequest(req.params) IN
    IF d = None
    THEN Answer(JsonRpcResponse_error(req.id,
                    McpError_invalid_params(<<"Invalid resource request">>)))
    ELSE LookUp("resource_handlers", Unwrap(d).uri, Unwrap(d).uri,
                <<"No resource handler configured">>)

\* Mutant: a params object without "uri" is read with an empty default.
handle_read_resource_default(req) ==
    LET d == decode_ReadResourceRequest(req.params) IN
    IF ~req.params.present
    THEN Answer(JsonRpcResponse_error(req.id,
                    McpError_invalid_params(<<"Invalid resource request">>)))
    ELSE LookUp("resource_handlers", DEFAULT_KEY,
                IF d = None THEN NoKey ELSE Unwrap(d).uri,
                <<"No resource handler configured">>)

handle_read_resource(req) ==
    LET d == decode_ReadResourceRequest(req.params) IN
    IF d = None
    THEN Answer(JsonRpcResponse_error(req.id,
                    McpError_invalid_params(<<"Invalid resource request">>)))
    ELSE LookUp("resource_handlers", DEFAULT_KEY, Unwrap(d).uri,
                <<"No resource handler configured">>)

handle_get_prompt(req) ==
    LET d == decode_GetPromptRequest(req.params) IN
    IF d = None
    THEN Answer(JsonRpcResponse_error(req.id,
                    McpError_invalid_params(<<"Invalid prompt request">>)))
    ELSE LookUp("prompt_handlers", Unwrap(d).name, Unwrap(d).name,
                <<"Prompt not found: ", Unwrap(d).name>>)

\* Mutant: a handshake; until an initialize request has been received the
\* three calls are refused.
handle_request_after_initialize(req) ==
    IF initialized = 0 /\ req.method \in CallMethods
    THEN Answer(JsonRpcResponse_error(req.id,
                    McpError_invalid_params(<<"Server not initialized">>)))
    ELSE CASE req.method = "initialize" -> handle_initialize(req)
           [] req.method = "tools/list" -> handle_list_tools(req)
           [] req.method = "tools/call" -> handle_call_tool(req)
           [] req.method = "resources/list" -> handle_list_resources(req)
           [] req.method = "resources/read" -> handle_read_resource(req)
           [] req.method = "prompts/list" -> handle_list_prompts(req)
           [] req.method = "prompts/get" -> handle_get_prompt(req)
           [] OTHER -> Answer(JsonRpcResponse_error(req.id,
                                  McpError_method_not_found(<<req.method>>)))

\* Mutant: the arm of prompts/list calls the operation of resources/list.
handle_request_wrong_arm(req) ==
    CASE req.method = "initialize" -> handle_initialize(req)
      [] req.method = "tools/list" -> handle_list_tools(req)
      [] req.method = "tools/call" -> handle_call_tool(req)
      [] req.method = "resources/list" -> handle_list_resources(req)
      [] req.method = "resources/read" -> handle_read_resource(req)
      [] req.method = "prompts/list" -> handle_list_resources(req)
      [] req.method = "prompts/get" -> handle_get_prompt(req)
      [] OTHER -> Answer(JsonRpcResponse_error(req.id,
                             McpError_method_not_found(<<req.method>>)))

\* Mutant: the error for an unrouted method is built without the request's
\* identifier.
handle_request_null_id(req) ==
    CASE req.method = "initialize" -> handle_initialize(req)
      [] req.method = "tools/list" -> handle_list_tools(req)
      [] req.method = "tools/call" -> handle_call_tool(req)
      [] req.method = "resources/list" -> handle_list_resources(req)
      [] req.method = "resources/read" -> handle_read_resource(req)
      [] req.method = "prompts/list" -> handle_list_prompts(req)
      [] req.method = "prompts/get" -> handle_get_prompt(req)
      [] OTHER -> Answer(JsonRpcResponse_error(NoRequest.id,
                             McpError_method_not_found(<<req.method>>)))

handle_request(req) ==
    CASE req.method = "initialize" -> handle_initialize(req)
      [] req.method = "tools/list" -> handle_list_tools(req)
      [] req.method = "tools/call" -> handle_call_tool(req)
      [] req.method = "resources/list" -> handle_list_resources(req)
      [] req.method = "resources/read" -> handle_read_resource(req)
      [] req.method = "prompts/list" -> handle_list_prompts(req)
      [] req.method = "prompts/get" -> handle_get_prompt(req)
      [] OTHER -> Answer(JsonRpcResponse_error(req.id,
                             McpError_method_not_found(<<req.method>>)))

\* ------------------------------------------------------------ the run loop
RECURSIVE Received(_)
Received(ls) ==
    IF ls = {} THEN 0
    ELSE LET l == CHOOSE x \in ls : TRUE IN Len(reqLog[l]) + Received(ls \ {l})

\* Mutant: an error response is dropped and the loop receives again.
Respond_unless_error(l, resp) ==
    /\ response' = [response EXCEPT ![l] = resp]
    /\ pc' = [pc EXCEPT ![l] = IF resp.error = None THEN "send" ELSE "receive"]

\* The response is ready: handle_request returns it to run.
Respond(l, resp) ==
    /\ response' = [response EXCEPT ![l] = resp]
    /\ pc' = [pc EXCEPT ![l] = "send"]

\* With the read guard `handlers` granted: match handlers.get(key).
\* Some(handler): the handler is called and awaited, the guard alive.
\* None: the error response is returned and the guard dropped with it.
Looked(l, req, d, st) ==
    LET found == HashMap_get(registry[d.cat], d.key) IN
    IF found # None
    THEN /\ lockReaders' = [lockReaders EXCEPT ![d.cat] = @ \cup {l}]
         /\ running' = [running EXCEPT ![l] =
                           Some(Registration(d.cat, d.key, Unwrap(found)))]
         /\ pc' = [pc EXCEPT ![l] = "invoke"]
         /\ stats' = [stats EXCEPT ![l] =
                         [st EXCEPT !.lookups = @ + 1, !.invoked = @ + 1]]
         /\ UNCHANGED response
    ELSE /\ Respond(l, JsonRpcResponse_error(req.id,
                          McpError_method_not_found(d.notFound)))
         /\ stats' = [stats EXCEPT ![l] = [st EXCEPT !.lookups = @ + 1]]
         /\ UNCHANGED <<lockReaders, running>>

\* transport.receive_request().await returns Ok(request), and
\* self.handle_request(request) runs up to the point where it waits.
receive_request_ok(l, req) ==
    LET d == handle_request(req)
        st == [ZeroStats EXCEPT !.dispatched = 1] IN
    /\ pc[l] = "receive"
    /\ Received(Loops) < MaxReq
    /\ request' = [request EXCEPT ![l] = req]
    /\ reqLog' = [reqLog EXCEPT ![l] = Append(@, req.id)]
    /\ ops' = [ops EXCEPT ![l] = Append(@, "receive")]
    /\ typed' = [typed EXCEPT ![l] = d.typed]
    /\ IF d.answer # None
       THEN /\ Respond(l, Unwrap(d.answer))
            /\ stats' = [stats EXCEPT ![l] = st]
            /\ UNCHANGED <<lockReaders, lockQueue, running>>
       ELSE IF ReadNow(d.cat)
       THEN /\ Looked(l, req, d, st)
            /\ UNCHANGED lockQueue
       ELSE /\ lockQueue' = [lockQueue EXCEPT ![d.cat] = Append(@, Waiter(l, "read"))]
            /\ pc' = [pc EXCEPT ![l] = "read_wait"]
            /\ stats' = [stats EXCEPT ![l] = st]
            /\ UNCHANGED <<lockReaders, running, response>>
    /\ UNCHANGED <<run_result, respLog, lastOutcome, failed>>
    /\ UNCHANGED mapVars
    /\ UNCHANGED regVars
    /\ UNCHANGED serverVars
    /\ initialized' = initialized + (IF req.method = "initialize" THEN 1 ELSE 0)
    /\ UNCHANGED resolved

\* Mutant: every receive failure is returned as ServerError::Transport.
receive_request_err_mapped(l, e) ==
    /\ pc[l] = "receive"
    /\ pc' = [pc EXCEPT ![l] = "returned"]
    /\ run_result' = [run_result EXCEPT ![l] = Some("Transport")]
    /\ failed' = [failed EXCEPT ![l] = Some([op |-> "receive_request", error |-> e])]
    /\ UNCHANGED <<request, typed, running, response, reqLog, respLog, lastOutcome, ops, stats>>
    /\ UNCHANGED <<lockReaders, lockQueue>>
    /\ UNCHANGED mapVars
    /\ UNCHANGED regVars
    /\ UNCHANGED serverVars
    /\ UNCHANGED <<initialized, resolved>>

\* transport.receive_request().await returns Err(e): `?` returns it from run.
receive_request_err(l, e) ==
    /\ pc[l] = "receive"
    /\ pc' = [pc EXCEPT ![l] = "returned"]
    /\ run_result' = [run_result EXCEPT ![l] = Some(e)]
    /\ failed' = [failed EXCEPT ![l] = Some([op |-> "receive_request", error |-> e])]
    /\ UNCHANGED <<request, typed, running, response, reqLog, respLog, lastOutcome, ops, stats>>
    /\ UNCHANGED <<lockReaders, lockQueue>>
    /\ UNCHANGED mapVars
    /\ UNCHANGED regVars
    /\ UNCHANGED serverVars
    /\ UNCHANGED <<initialized, resolved>>

\* The queued read() of handle_call_tool / handle_read_resource /
\* handle_get_prompt is granted.
read_granted(l) ==
    LET d == handle_request(request[l]) IN
    /\ pc[l] = "read_wait"
    /\ ReadGrantable(d.cat, l)
    /\ lockQueue' = [lockQueue EXCEPT ![d.cat] = Without(@, Position(d.cat, l))]
    /\ Looked(l, request[l], d, stats[l])
    /\ UNCHANGED <<request, typed, run_result, reqLog, respLog, lastOutcome, ops, failed>>
    /\ UNCHANGED mapVars
    /\ UNCHANGED regVars
    /\ UNCHANGED serverVars
    /\ UNCHANGED <<initialized, resolved>>

\* The guard `handlers` goes out of scope when the handle_* function returns.
DropGuard(l) ==
    lockReaders' = [c \in Cat |-> lockReaders[c] \ {l}]

\* handler(request).await resolves and the handle_* function returns.
HandlerDone(l, resp) ==
    /\ pc[l] = "invoke"
    /\ Unwrap(running[l]).h \in HandlerFns
    /\ Respond(l, resp)
    /\ running' = [running EXCEPT ![l] = None]
    /\ DropGuard(l)
    /\ UNCHANGED <<request, typed, run_result, reqLog, respLog, lastOutcome, ops, stats, failed>>
    /\ UNCHANGED lockQueue
    /\ UNCHANGED mapVars
    /\ UNCHANGED regVars
    /\ UNCHANGED serverVars
    /\ UNCHANGED initialized

\* Ok(result) => JsonRpcResponse::success(request.id, to_value(result))
handler_ok(l, v) ==
    /\ HandlerDone(l, JsonRpcResponse_success(request[l].id,
                          Result(Unwrap(running[l]).h, v)))
    /\ resolved' = [resolved EXCEPT ![l] = Some(Ok(v))]

\* Mutant: the error of a handler is propagated out of run as
\* ServerError::Handler.
handler_err_fatal(l, e) ==
    /\ pc[l] = "invoke"
    /\ pc' = [pc EXCEPT ![l] = "returned"]
    /\ run_result' = [run_result EXCEPT ![l] = Some("Handler")]
    /\ running' = [running EXCEPT ![l] = None]
    /\ DropGuard(l)
    /\ UNCHANGED <<request, typed, response, reqLog, respLog, lastOutcome, ops, stats, failed>>
    /\ UNCHANGED lockQueue
    /\ UNCHANGED mapVars
    /\ UNCHANGED regVars
    /\ UNCHANGED serverVars
    /\ UNCHANGED <<initialized, resolved>>

\* Mutant: the error is rebuilt from its code and message, without its data.
handler_err_without_data(l, e) ==
    /\ HandlerDone(l, JsonRpcResponse_error(request[l].id, [e EXCEPT !.data = None]))
    /\ resolved' = [resolved EXCEPT ![l] = Some(Err(e))]

\* Err(error) => JsonRpcResponse::error(request.id, error)
handler_err(l, e) ==
    /\ HandlerDone(l, JsonRpcResponse_error(request[l].id, e))
    /\ resolved' = [resolved EXCEPT ![l] = Some(Err(e))]

\* The handler's future never resolves: run stays in handler(request).await
\* for ever, the guard alive.
handler_never_returns(l) ==
    /\ pc[l] = "invoke"
    /\ Unwrap(running[l]).h \in HandlerFns
    /\ pc' = [pc EXCEPT ![l] = "hung"]
    /\ UNCHANGED <<request, typed, running, response, run_result, reqLog,
                   respLog, lastOutcome, ops, stats, failed>>
    /\ UNCHANGED <<lockReaders, lockQueue>>
    /\ UNCHANGED mapVars
    /\ UNCHANGED regVars
    /\ UNCHANGED serverVars
    /\ UNCHANGED <<initialized, resolved>>

\* transport.send_response(response).await returns Ok(()): the loop goes
\* round, the request and the response are gone.
send_response_ok(l) ==
    /\ pc[l] = "send"
    /\ respLog' = [respLog EXCEPT ![l] = Append(@, response[l].id)]
    /\ lastOutcome' = [lastOutcome EXCEPT ![l] = Outcome(response[l])]
    /\ ops' = [ops EXCEPT ![l] = Append(@, "send")]
    /\ pc' = [pc EXCEPT ![l] = "receive"]
    /\ request' = [request EXCEPT ![l] = NoRequest]
    /\ response' = [response EXCEPT ![l] = NoResponse]
    /\ typed' = [typed EXCEPT ![l] = NoKey]
    /\ stats' = [stats EXCEPT ![l] = ZeroStats]
    /\ UNCHANGED <<running, run_result, reqLog, failed>>
    /\ UNCHANGED <<lockReaders, lockQueue>>
    /\ UNCHANGED mapVars
    /\ UNCHANGED regVars
    /\ UNCHANGED serverVars
    /\ resolved' = [resolved EXCEPT ![l] = None]
    /\ UNCHANGED initialized

\* transport.send_response(response).await returns Err(e): `?` returns it,
\* and the locals of run are gone.
send_response_err(l, e) ==
    /\ pc[l] = "send"
    /\ ops' = [ops EXCEPT ![l] = Append(@, "send")]
    /\ pc' = [pc EXCEPT ![l] = "returned"]
    /\ run_result' = [run_result EXCEPT ![l] = Some(e)]
    /\ failed' = [failed EXCEPT ![l] = Some([op |-> "send_response", error |-> e])]
    /\ request' = [request EXCEPT ![l] = NoRequest]
    /\ response' = [response EXCEPT ![l] = NoResponse]
    /\ typed' = [typed EXCEPT ![l] = NoKey]
    /\ stats' = [stats EXCEPT ![l] = ZeroStats]
    /\ UNCHANGED <<running, reqLog, respLog, lastOutcome>>
    /\ UNCHANGED <<lockReaders, lockQueue>>
    /\ UNCHANGED mapVars
    /\ UNCHANGED regVars
    /\ UNCHANGED serverVars
    /\ resolved' = [resolved EXCEPT ![l] = None]
    /\ UNCHANGED initialized

\* One step of Server::run in task l.
run(l) ==
    \/ \E req \in Inbox(l, Len(reqLog[l]) + 1) : receive_request_ok(l, req)
    \/ \E e \in TransportErrors : receive_request_err(l, e)
    \/ read_granted(l)
    \/ \E v \in HandlerValues : handler_ok(l, v)
    \/ \E e \in HandlerErrors : handler_err(l, e)
    \/ handler_never_returns(l)
    \/ send_response_ok(l)
    \/ \E e \in TransportErrors : send_response_err(l, e)

\* One step of a task that registers handlers.
Register(r) ==
    \/ \E n \in Names, h \in HandlerFns : set_tool_handler(r, n, h)
    \/ \E h \in HandlerFns : set_resource_handler(r, h)
    \/ \E n \in Names, h \in HandlerFns : set_prompt_handler(r, n, h)
    \/ write_granted(r)

Next ==
    \/ \E l \in Loops : run(l)
    \/ \E r \in Registrars : Register(r)

Spec == Init /\ [][Next]_vars

BuildSpec == BuildInit /\ [][Next]_vars

\* ------------------------------------------- handlers that register handlers
\* The set_*_handler call a running closure of ReentrantFns makes.
NestedCall(g) ==
    IF g.h = "hs" THEN Registration(g.cat, g.key, "h1")
    ELSE Registration("prompt_handlers", "a", "h1")

\* The awaited closure calls set_*_handler from the task of the run loop,
\* which holds the read guard `handlers` of the map being read: write()
\* returns at once when the lock is free, otherwise the task joins the queue.
handler_calls_set(l) ==
    /\ pc[l] = "invoke"
    /\ Unwrap(running[l]).h \in ReentrantFns
    /\ LET a == NestedCall(Unwrap(running[l])) IN
       IF WriteNow(a.cat)
       THEN /\ Insert(a)
            /\ pc' = [pc EXCEPT ![l] = "resumed"]
            /\ UNCHANGED lockQueue
       ELSE /\ lockQueue' = [lockQueue EXCEPT ![a.cat] = Append(@, Waiter(l, "write"))]
            /\ pc' = [pc EXCEPT ![l] = "nested_wait"]
            /\ UNCHANGED mapVars
    /\ UNCHANGED <<request, typed, running, response, run_result, reqLog,
                   respLog, lastOutcome, ops, stats, failed>>
    /\ UNCHANGED lockReaders
    /\ UNCHANGED regVars
    /\ UNCHANGED <<serverVars, initialized, resolved>>

\* The queued write() of the closure is granted: insert, guard dropped.
handler_write_granted(l) ==
    LET a == NestedCall(Unwrap(running[l])) IN
    /\ pc[l] = "nested_wait"
    /\ WriteGrantable(a.cat, l)
    /\ Insert(a)
    /\ lockQueue' = [lockQueue EXCEPT ![a.cat] = Without(@, Position(a.cat, l))]
    /\ pc' = [pc EXCEPT ![l] = "resumed"]
    /\ UNCHANGED <<request, typed, running, response, run_result, reqLog,
                   respLog, lastOutcome, ops, stats, failed>>
    /\ UNCHANGED lockReaders
    /\ UNCHANGED regVars
    /\ UNCHANGED <<serverVars, initialized, resolved>>

\* Its set_*_handler call done, the closure returns Ok(v) and the handle_*
\* function returns the response, dropping `handlers`.
handler_returns(l, v) ==
    /\ pc[l] = "resumed"
    /\ Respond(l, JsonRpcResponse_success(request[l].id,
                      Result(Unwrap(running[l]).h, v)))
    /\ running' = [running EXCEPT ![l] = None]
    /\ DropGuard(l)
    /\ resolved' = [resolved EXCEPT ![l] = Some(Ok(v))]
    /\ UNCHANGED <<request, typed, run_result, reqLog, respLog, lastOutcome,
                   ops, stats, failed>>
    /\ UNCHANGED lockQueue
    /\ UNCHANGED mapVars
    /\ UNCHANGED regVars
    /\ UNCHANGED <<serverVars, initialized>>

\* One step of the closure awaited by loop l.
reentrant(l) ==
    \/ handler_calls_set(l)
    \/ handler_write_granted(l)
    \/ \E v \in HandlerValues : handler_returns(l, v)

\* The runs with such closures: one task registers "hs" on one of the
\* three maps, or "hx" for a tool and h1 for the prompt "a".
ReentrantWorkloads ==
    {OneTask({Registration("tool_handlers", "a", "hs")}),
     OneTask({Registration("prompt_handlers", "a", "hs")}),
     OneTask({Registration("resource_handlers", DEFAULT_KEY, "hs")}),
     OneTask({Registration("tool_handlers", "a", "hx"),
              Registration("prompt_handlers", "a", "h1")})}

ReentrantInit == \E w \in ReentrantWorkloads : Built(DefaultBuilder, w)

ReentrantRegister(r) ==
    \/ \E a \in workload[r] : SetHandler(r, a.cat, a.key, a.h)
    \/ write_granted(r)

ReentrantNext ==
    \/ \E l \in Loops : run(l) \/ reentrant(l)
    \/ \E r \in Registrars : ReentrantRegister(r)

ReentrantSpec == ReentrantInit /\ [][ReentrantNext]_vars

\* As FairSpec: every task that can make progress is polled.
FairReentrantSpec ==
    /\ ReentrantSpec
    /\ \A l \in Loops : WF_vars(run(l) \/ reentrant(l))
    /\ \A r \in Registrars : WF_vars(write_granted(r))

\* The executor polls every task that can make progress: a run loop that
\* can take a step takes one, a granted write() returns.  Nothing makes a
\* task call set_*_handler, and nothing makes a handler's future resolve
\* (handler_never_returns is one of the steps of a loop awaiting it).
FairSpec ==
    /\ Spec
    /\ \A l \in Loops : WF_vars(run(l))
    /\ \A r \in Registrars : WF_vars(write_granted(r))

\* ------------------------------------------------------------------ claims
\* What the claims say of a request, read off the request itself.
HandlerRunning(l) == pc[l] \in {"invoke", "hung"}

CatOfMethod(m) ==
    CASE m = "tools/call" -> "tool_handlers"
      [] m = "resources/read" -> "resource_handlers"
      [] m = "prompts/get" -> "prompt_handlers"

FieldOf(req) ==
    IF req.method = "resources/read" THEN req.params.uri ELSE req.params.name

Decodable(req) ==
    req.method \in CallMethods /\ req.params.present /\ FieldOf(req) \in Names

KeyOf(req) == IF req.method = "resources/read" THEN DEFAULT_KEY ELSE FieldOf(req)

\* Loop l makes its registry lookup in this step.
LookupStep(l) == stats'[l].lookups = 1 /\ (stats[l].lookups = 0 \/ pc[l] = "receive")

\* C1 (as claimed): while a handler invoked by tools/call, resources/read or
\* prompts/get is running, the task awaiting it holds no guard of any of the
\* three maps, so no registration and no lookup has to wait for it.
C1_NoGuardWhileHandlerRuns ==
    \A l \in Loops : HandlerRunning(l) => \A c \in Cat : l \notin lockReaders[c]

\* C2: a call naming a key that has been registered invokes one handler,
\* once, and it is the handler of the latest completed set_*_handler for that
\* key; a map never holds two entries for one key.
C2_LatestHandlerInvokedOnce ==
    /\ [](\A c \in Cat : \A e1, e2 \in registry[c] : e1[1] = e2[1] => e1 = e2)
    /\ [](\A l \in Loops : stats[l].invoked <= 1 /\ stats[l].lookups <= 1)
    /\ [][\A l \in Loops :
            LET req == request'[l]
                c == CatOfMethod(req.method)
                k == KeyOf(req) IN
            (LookupStep(l) /\ lastCompleted[c][k] # None) =>
                /\ pc'[l] = "invoke"
                /\ stats'[l].invoked = 1
                /\ running'[l] = Some(Registration(c, k, Unwrap(lastCompleted[c][k])))]_vars
    /\ [][\A l \in Loops : running'[l] # running[l] =>
            (running[l] = None /\ LookupStep(l)) \/ running'[l] = None]_vars

\* A call of tool "a" answered by h1 is about to be sent while another call
\* of "a", looked up after the replacement, is running h2.
C2_Witness ==
    \E l1, l2 \in Loops :
        /\ pc[l1] = "send" /\ request[l1].method = "tools/call"
        /\ response[l1].result = Some(Result("h1", "v1"))
        /\ pc[l2] = "invoke" /\ request[l2].method = "tools/call"
        /\ running[l2] = Some(Registration("tool_handlers", "a", "h2"))
        /\ lastCompleted["tool_handlers"]["a"] = Some("h2")

\* C3: a tools/call or prompts/get whose name has no entry is answered with a
\* method-not-found error whose message holds that name; no handler runs,
\* the lookup is made once, and the maps are as they were.
C3_MissingNameIsMethodNotFound ==
    [][\A l \in Loops :
          LET req == request'[l]
              c == CatOfMethod(req.method)
              k == KeyOf(req) IN
          (LookupStep(l) /\ req.method \in {"tools/call", "prompts/get"}
                         /\ HashMap_get(registry[c], k) = None) =>
              /\ pc'[l] = "send"
              /\ response'[l].id = req.id
              /\ response'[l].result = None
              /\ \E err \in response'[l].error :
                    /\ err.code = "MethodNotFound"
                    /\ \E i \in 1..Len(err.message) : err.message[i] = k
              /\ stats'[l].invoked = 0 /\ stats'[l].lookups = 1
              /\ running'[l] = None
              /\ registry' = registry
              /\ \A x \in Cat : l \notin lockReaders'[x]]_vars

\* "b" is called while only "a" is registered, and the error naming "b" is
\* about to be sent.
C3_Witness ==
    \E l \in Loops :
        /\ pc[l] = "send" /\ request[l].method = "tools/call"
        /\ request[l].params.name = "b"
        /\ HashMap_get(registry["tool_handlers"], "a") # None
        /\ HashMap_get(registry["tool_handlers"], "b") = None
        /\ response[l] = JsonRpcResponse_error(request[l].id,
               McpError_method_not_found(<<"Tool not found: ", "b">>))
        /\ stats[l] = [dispatched |-> 1, lookups |-> 1, invoked |-> 0]

\* C4 (as claimed): a set_tool_handler(T, new) issued while a tools/call of
\* T is in flight with the old handler completes; the call in flight keeps
\* the handler it looked up; and a lookup of T made after the replacement
\* completed finds the new handler.
C4_ReplacementDuringCall ==
    /\ \A r \in Registrars :
          (/\ regPc[r] = "write_wait" /\ regArg[r].cat = "tool_handlers"
           /\ \E l \in Loops, old \in HandlerFns \ {regArg[r].h} :
                 /\ HandlerRunning(l)
                 /\ running[l] = Some(Registration("tool_handlers", regArg[r].key, old)))
          ~> (regPc[r] = "idle")
    /\ [][\A l \in Loops : running[l] # None => running'[l] \in {running[l], None}]_vars
    /\ [][\A l \in Loops :
            (LookupStep(l) /\ request'[l].method = "tools/call") =>
                HashMap_get(registry["tool_handlers"], KeyOf(request'[l])) =
                    lastCompleted["tool_handlers"][KeyOf(request'[l])]]_vars

\* C7 (as claimed): every set_*_handler call eventually returns with its
\* entry installed, whatever the run loops are doing.
C7_RegistrationCompletes ==
    /\ \A r \in Registrars : (regPc[r] = "write_wait") ~> (regPc[r] = "idle")
    /\ [][\A r \in Registrars :
            (regPc[r] = "write_wait" /\ regPc'[r] = "idle") =>
                HashMap_get(registry'[regArg[r].cat], regArg[r].key) = Some(regArg[r].h)]_vars

\* C5: the responses of a run loop come out in the order of its requests,
\* the i-th response with the identifier of the i-th request, whatever the
\* methods and outcomes.
C5_ResponsesInRequestOrder ==
    \A l \in Loops :
        /\ Len(respLog[l]) <= Len(reqLog[l])
        /\ \A i \in 1..Len(respLog[l]) : respLog[l][i] = reqLog[l][i]
        /\ pc[l] = "send" =>
              /\ Len(respLog[l]) = Len(reqLog[l]) - 1
              /\ response[l].id = reqLog[l][Len(reqLog[l])]

\* A loop has answered a first request with an error and has the result of
\* a handler to send for the second.
C5_Witness ==
    \E l \in Loops :
        /\ respLog[l] = <<1>> /\ lastOutcome[l] = "MethodNotFound"
        /\ reqLog[l] = <<1, 2>>
        /\ pc[l] = "send"
        /\ response[l] = JsonRpcResponse_success(2, Result("h1", "v1"))

\* C6: a tools/call, resources/read or prompts/get whose params are absent
\* or do not decode is answered with an invalid-params error carrying the
\* request's identifier; no lookup is made and no handler runs for it.
C6_UndecodableIsInvalidParams ==
    \A l \in Loops :
        (request[l].method \in CallMethods /\ ~Decodable(request[l])) =>
            /\ pc[l] = "send"
            /\ response[l].id = request[l].id
            /\ response[l].result = None
            /\ \E err \in response[l].error : err.code = "InvalidParams"
            /\ stats[l].lookups = 0 /\ stats[l].invoked = 0
            /\ running[l] = None
            /\ \A c \in Cat : /\ l \notin lockReaders[c]
                              /\ Position(c, l) = 0

\* A tools/call with a number for a name is being answered while tool "a"
\* has a handler.
C6_Witness ==
    \E l \in Loops :
        /\ pc[l] = "send"
        /\ request[l].method = "tools/call"
        /\ request[l].params = Params(NonString, Missing)
        /\ HashMap_get(registry["tool_handlers"], "a") # None
        /\ Outcome(response[l]) = "InvalidParams"

\* C8 (as claimed): Server::run returns only when receive_request fails,
\* and then returns that failure.
C8_ReturnsOnlyOnReceiveFailure ==
    \A l \in Loops :
        pc[l] = "returned" =>
            \E f \in failed[l] :
                f.op = "receive_request" /\ run_result[l] = Some(f.error)

\* C8 (amended): Server::run returns only when receive_request or
\* send_response fails, and then returns that failure.
C8_ReturnsOnlyOnTransportFailure ==
    \A l \in Loops :
        /\ pc[l] = "returned" <=> run_result[l] # None
        /\ pc[l] = "returned" <=> failed[l] # None
        /\ \A f \in failed[l] :
              /\ f.op \in {"receive_request", "send_response"}
              /\ run_result[l] = Some(f.error)

\* A loop that has answered a request returned the Io failure of a send.
C8_Witness ==
    \E l \in Loops :
        /\ pc[l] = "returned"
        /\ Len(respLog[l]) >= 1
        /\ failed[l] = Some([op |-> "send_response", error |-> "Io"])
        /\ run_result[l] = Some("Io")

\* C9: an error response (unrouted method, undecodable params, missing
\* handler, error returned by a handler) is handed to send_response; when
\* the send succeeds the loop is back at receive_request with no guard held
\* and the maps as they were; the loop ends only out of a transport call.
C9_ErrorsDoNotEndTheLoop ==
    /\ [](\A l \in Loops : response[l].error # None => pc[l] = "send")
    /\ [][\A l \in Loops :
            (pc[l] = "send" /\ response[l].error # None /\ pc'[l] # "send") =>
                \/ /\ pc'[l] = "receive"
                   /\ respLog'[l] = Append(respLog[l], request[l].id)
                   /\ lastOutcome'[l] = Unwrap(response[l].error).code
                   /\ registry' = registry
                   /\ \A c \in Cat : l \notin lockReaders'[c] /\ lockQueue'[c] = lockQueue[c]
                \/ /\ pc'[l] = "returned"
                   /\ \E f \in failed'[l] : f.op = "send_response"]_vars
    /\ [][\A l \in Loops :
            (pc'[l] = "returned" /\ pc[l] # "returned") => pc[l] \in {"receive", "send"}]_vars

\* After the error of a handler was sent, the loop took the next request
\* and is about to send a result for it.
C9_Witness ==
    \E l \in Loops :
        /\ respLog[l] = <<1>> /\ lastOutcome[l] = "HandlerError"
        /\ pc[l] = "send"
        /\ request[l].id = 2
        /\ response[l].result # None

\* C10: the transport calls of a loop alternate, receive first; a request
\* received is dispatched once, looked up at most once and runs at most one
\* handler before its one response is sent.
C10_ReceiveSendAlternate ==
    \A l \in Loops :
        /\ \A i \in 1..Len(ops[l]) :
              ops[l][i] = IF i % 2 = 1 THEN "receive" ELSE "send"
        /\ Len(reqLog[l]) = (Len(ops[l]) + 1) \div 2
        /\ Len(respLog[l]) <= Len(ops[l]) \div 2
        /\ pc[l] = "receive" => Len(ops[l]) % 2 = 0
        /\ pc[l] \in {"read_wait", "invoke", "hung", "send"} =>
              /\ Len(ops[l]) % 2 = 1
              /\ stats[l].dispatched = 1
        /\ stats[l].lookups <= 1 /\ stats[l].invoked <= stats[l].lookups
        /\ HandlerRunning(l) => stats[l].invoked = 1

\* A loop has gone through two full cycles.
C10_Witness ==
    \E l \in Loops :
        /\ ops[l] = <<"receive", "send", "receive", "send">>
        /\ Len(respLog[l]) = 2

\* C11: the capabilities in the result of every initialize request have
\* tools / resources / prompts present exactly when the list of that kind
\* given to the builder was not empty, each with its sub-flags unset, and
\* logging present, whatever handlers have been registered.
C11_CapabilitiesFollowBuildLists ==
    \A l \in Loops :
        (pc[l] = "send" /\ request[l].method = "initialize") =>
            /\ response[l].error = None
            /\ \E res \in response[l].result :
                  LET caps == res.capabilities IN
                  /\ DOMAIN res = {"protocol_version", "capabilities",
                                   "server_info", "instructions"}
                  /\ caps.tools # None <=> builder.tools # <<>>
                  /\ caps.resources # None <=> builder.resources # <<>>
                  /\ caps.prompts # None <=> builder.prompts # <<>>
                  /\ \A t \in caps.tools : t.list_changed = None
                  /\ \A r \in caps.resources :
                        r.subscribe = None /\ r.list_changed = None
                  /\ \A q \in caps.prompts : q.list_changed = None
                  /\ caps.logging # None

\* A server built without tools answers initialize after handlers were set
\* for a tool and for a prompt.
C11_Witness ==
    \E l \in Loops :
        /\ pc[l] = "send" /\ request[l].method = "initialize"
        /\ builder = ServerBuilder(<<>>, <<"r1">>, <<"p1", "p1">>)
        /\ registry["tool_handlers"] # HashMap_new
        /\ registry["prompt_handlers"] # HashMap_new
        /\ \E res \in response[l].result :
              /\ res.capabilities.tools = None
              /\ res.capabilities.resources # None

\* C12: when the awaited handler returns Err(error) the response is that
\* error as it is (code, message, data), with the identifier of the request
\* and no result; when it returns Ok(result) the response is that result,
\* with the identifier and no error.  A response to send has a result or an
\* error, never both, never neither.
C12_HandlerOutcomeVerbatim ==
    /\ [][\A l \in Loops :
            (resolved[l] = None /\ resolved'[l] # None) =>
                LET out == Unwrap(resolved'[l]) IN
                /\ pc[l] = "invoke" /\ pc'[l] = "send"
                /\ response'[l].id = request[l].id
                /\ (out.value = None) # (out.error = None)
                /\ response'[l].error = out.error
                /\ response'[l].result =
                      {Result(Unwrap(running[l]).h, v) : v \in out.value}]_vars
    /\ [](\A l \in Loops :
            pc[l] = "send" =>
                /\ (response[l].result = None) # (response[l].error = None)
                /\ resolved[l] # None =>
                      response[l].error = Unwrap(resolved[l]).error)

\* The prompt handler returned an error with data and the response that
\* carries it is about to be sent.
C12_Witness ==
    \E l \in Loops, e \in HandlerErrors :
        /\ pc[l] = "send" /\ request[l].method = "prompts/get"
        /\ e.data # None
        /\ resolved[l] = Some(Err(e))
        /\ response[l] = JsonRpcResponse_error(request[l].id, e)

\* The members of the result each operation without a handler builds, and
\* the message of the invalid-params error of each operation with one.
OwnResult(m) ==
    CASE m = "initialize" ->
            {"protocol_version", "capabilities", "server_info", "instructions"}
      [] m = "tools/list" -> {"tools", "next_cursor"}
      [] m = "resources/list" -> {"resources", "next_cursor"}
      [] m = "prompts/list" -> {"prompts", "next_cursor"}

OwnInvalid(m) ==
    CASE m = "tools/call" -> <<"Invalid tool request">>
      [] m = "resources/read" -> <<"Invalid resource request">>
      [] m = "prompts/get" -> <<"Invalid prompt request">>

OwnNotFound(m) ==
    CASE m = "tools/call" -> "Tool not found: "
      [] m = "resources/read" -> "No resource handler configured"
      [] m = "prompts/get" -> "Prompt not found: "

\* C13: each of the seven routed methods is handled by its own operation
\* (seen by the result it builds, or by the map it reads and the error it
\* gives for bad params); a request with any other method is answered with
\* a method-not-found error carrying its identifier, with no lookup, no
\* handler and no lock touched, and the step leaves the maps as they were.
C13_RoutingFixedAndExhaustive ==
    /\ [](\A l \in Loops :
            LET req == request[l]
                m == req.method IN
            req # NoRequest =>
                /\ stats[l].dispatched = 1
                /\ m \in RoutedMethods \ CallMethods =>
                      /\ pc[l] = "send"
                      /\ response[l].id = req.id /\ response[l].error = None
                      /\ \E res \in response[l].result : DOMAIN res = OwnResult(m)
                      /\ stats[l].lookups = 0 /\ running[l] = None
                /\ m \in CallMethods =>
                      /\ \A c \in Cat \ {CatOfMethod(m)} :
                            l \notin lockReaders[c] /\ Position(c, l) = 0
                      /\ \A h \in running[l] : h.cat = CatOfMethod(m)
                      /\ \A err \in response[l].error :
                            /\ err.code = "InvalidParams" => err.message = OwnInvalid(m)
                            /\ err.code = "MethodNotFound" =>
                                  err.message[1] = OwnNotFound(m)
                /\ m \notin RoutedMethods =>
                      /\ pc[l] = "send"
                      /\ response[l] = JsonRpcResponse_error(req.id,
                                           McpError_method_not_found(<<m>>))
                      /\ stats[l].lookups = 0 /\ stats[l].invoked = 0
                      /\ running[l] = None
                      /\ \A c \in Cat : l \notin lockReaders[c] /\ Position(c, l) = 0)
    /\ [][\A l \in Loops :
            (request'[l] # request[l] /\ request'[l].method \notin RoutedMethods) =>
                /\ registry' = registry
                /\ lockReaders' = lockReaders /\ lockQueue' = lockQueue
                /\ running' = running]_vars

\* With a handler on a tool, the notification that follows initialize in
\* the protocol is answered as an unknown method, by a loop that answered
\* prompts/list before.
C13_Witness ==
    \E l \in Loops :
        /\ pc[l] = "send"
        /\ request[l].method = "notifications/initialized"
        /\ request[l].id = 2
        /\ lastOutcome[l] = "result"
        /\ registry["tool_handlers"] # HashMap_new
        /\ response[l] = JsonRpcResponse_error(2,
               McpError_method_not_found(<<"notifications/initialized">>))

\* C14: the fields of Server that build filled (identity, capabilities and
\* the three descriptor lists) stay what build made of the builder, through
\* every request and registration; tools/list, resources/list and
\* prompts/list answer with the whole list of the builder, in its order.
C14_ListsAreTheBuildTimeLists ==
    /\ server = build(builder)
    /\ server.info = [name |-> builder.name, version |-> builder.version]
    /\ \A l \in Loops :
          pc[l] = "send" =>
              /\ request[l].method = "tools/list" =>
                    response[l] = JsonRpcResponse_success(request[l].id,
                        [tools |-> builder.tools, next_cursor |-> None])
              /\ request[l].method = "resources/list" =>
                    response[l] = JsonRpcResponse_success(request[l].id,
                        [resources |-> builder.resources, next_cursor |-> None])
              /\ request[l].method = "prompts/list" =>
                    response[l] = JsonRpcResponse_success(request[l].id,
                        [prompts |-> builder.prompts, next_cursor |-> None])

\* tools/list answers <<"b", "a">> when only "a" has a handler, after the
\* same loop answered a call; handlers are set on all three maps.
C14_Witness ==
    \E l \in Loops :
        /\ pc[l] = "send" /\ request[l].method = "tools/list"
        /\ request[l].id = 2
        /\ KeysIn(registry["tool_handlers"]) = {"a"}
        /\ registry["prompt_handlers"] # HashMap_new
        /\ registry["resource_handlers"] # HashMap_new
        /\ response[l].result = Some([tools |-> <<"b", "a">>, next_cursor |-> None])

\* The response to a request that is answered without a lookup, written as
\* a function of the request and of the builder alone.
Stateless(req) ==
    LET m == req.method
        made == build(builder) IN
    CASE m = "initialize" ->
            JsonRpcResponse_success(req.id,
                [protocol_version |-> MCP_VERSION,
                 capabilities |-> made.capabilities,
                 server_info |-> made.info,
                 instructions |-> None])
      [] m = "tools/list" ->
            JsonRpcResponse_success(req.id,
                [tools |-> made.tools, next_cursor |-> None])
      [] m = "resources/list" ->
            JsonRpcResponse_success(req.id,
                [resources |-> made.resources, next_cursor |-> None])
      [] m = "prompts/list" ->
            JsonRpcResponse_success(req.id,
                [prompts |-> made.prompts, next_cursor |-> None])
      [] m \in CallMethods ->
            JsonRpcResponse_error(req.id, McpError_invalid_params(OwnInvalid(m)))
      [] OTHER ->
            JsonRpcResponse_error(req.id, McpError_method_not_found(<<m>>))

\* What a lookup of map c for key k leads to, given the map: the handler
\* found is awaited, or the not-found error is the response.
AfterLookup(l, c, k) ==
    LET found == HashMap_get(registry[c], k) IN
    IF found # None
    THEN /\ pc'[l] = "invoke"
         /\ running'[l] = Some(Registration(c, k, Unwrap(found)))
    ELSE /\ pc'[l] = "send"
         /\ Outcome(response'[l]) = "MethodNotFound"

\* C15: there is no handshake.  Whatever the number of initialize requests
\* received before (none, one, several): a request that needs no lookup is
\* answered by a fixed function of the request and the builder, so that
\* every initialize gets the same result; a decodable call goes to the
\* lookup, and the lookup is decided by the map as it is then.
C15_NoHandshakeState ==
    /\ [](\A l \in Loops :
            (pc[l] = "send" /\ stats[l].lookups = 0) =>
                response[l] = Stateless(request[l]))
    /\ [](\A l \in Loops :
            Decodable(request[l]) =>
                \/ pc[l] \in {"read_wait", "invoke", "hung"}
                \/ pc[l] = "send" /\ stats[l].lookups = 1)
    /\ [][\A l \in Loops :
            LET req == request'[l] IN
            /\ (request'[l] # request[l] /\ Decodable(req)) =>
                  IF WriterQueued(CatOfMethod(req.method))
                  THEN pc'[l] = "read_wait"
                  ELSE AfterLookup(l, CatOfMethod(req.method), KeyOf(req))
            /\ (pc[l] = "read_wait" /\ pc'[l] # "read_wait") =>
                  AfterLookup(l, CatOfMethod(req.method), KeyOf(req))]_vars

\* A loop that answered initialize first is awaiting the handler of the
\* tools/call it received next.
C15_Witness ==
    \E l \in Loops :
        /\ initialized = 1
        /\ reqLog[l] = <<1, 2>> /\ respLog[l] = <<1>>
        /\ pc[l] = "invoke"
        /\ request[l].method = "tools/call"
        /\ running[l] = Some(Registration("tool_handlers", "a", "h1"))

\* The handlers of the set_*_handler calls for key k of map c that wait for
\* the write lock.
Pending(c, k) ==
    {regArg[r].h : r \in {x \in Registrars :
        regPc[x] = "write_wait" /\ regArg[x].cat = c /\ regArg[x].key = k}}

\* C16: a lookup of key K gets the handler of the latest completed
\* registration (the old one) or the handler of a registration under way
\* (the new one), or nothing when K had no entry, and never two.  A map
\* holds one entry per key, whose handler some task registered for that
\* key, and when a waiting registration is let in the entry of its key is
\* its handler and the other entries are as they were.
C16_RegistrationAtomicForLookup ==
    /\ [](\A c \in Cat : \A k \in Keys :
            LET entry == HashMap_get(registry[c], k) IN
            /\ Cardinality(entry) <= 1
            /\ entry = lastCompleted[c][k]
            /\ \A h \in entry :
                  \E r \in Registrars : Registration(c, k, h) \in workload[r])
    /\ [][\A l \in Loops :
            LookupStep(l) =>
                LET c == CatOfMethod(request'[l].method)
                    k == KeyOf(request'[l])
                    old == lastCompleted[c][k]
                    got == {g.h : g \in running'[l]} IN
                /\ Cardinality(got) <= 1
                /\ got \subseteq old \cup Pending(c, k)
                /\ got = None => old = None]_vars
    /\ [][\A r \in Registrars :
            (regPc[r] = "write_wait" /\ regPc'[r] = "idle") =>
                LET a == regArg[r] IN
                /\ HashMap_get(registry'[a.cat], a.key) = Some(a.h)
                /\ \A c \in Cat : \A k \in Keys :
                      (c # a.cat \/ k # a.key) =>
                          HashMap_get(registry'[c], k) = HashMap_get(registry[c], k)]_vars

\* Tool "a" was set to h2; a call of it got h2 and its result is about to
\* be sent; a second call, which queued between the two set_tool_handler
\* calls that waited for the first, got h1 from the one let in before it,
\* while the other still waits.
C16_Witness ==
    \E l1, l2 \in Loops, r \in Registrars :
        /\ pc[l1] = "send" /\ request[l1].method = "tools/call"
        /\ response[l1].result = Some(Result("h2", "v1"))
        /\ pc[l2] = "invoke"
        /\ running[l2] = Some(Registration("tool_handlers", "a", "h1"))
        /\ regPc[r] = "write_wait"
        /\ regArg[r] = Registration("tool_handlers", "a", "h2")
        /\ lastCompleted["tool_handlers"]["a"] = Some("h1")

\* The awaited handler is a closure that registers on the map it was looked
\* up in.
RunsSelfRegistering(l) ==
    /\ pc[l] \in {"invoke", "nested_wait", "resumed"}
    /\ \E g \in running[l] : g.h = "hs"

\* C17 (as claimed): a handler that, while it is awaited for a tools/call,
\* resources/read or prompts/get, calls the set_*_handler of its own map
\* completes that call and returns, so that the response is ready to send.
C17_SelfRegistrationReturns ==
    \A l \in Loops : RunsSelfRegistering(l) ~> (pc[l] = "send")

\* C18: the three maps are three key spaces.  A step changes at most one
\* map, the one of a set_*_handler call some task makes, and there only the
\* entry of that call; the resource map has no key but "default".  A
\* tools/call is decided by the tool map alone and a prompts/get by the
\* prompt map alone, so a name set only in the other map is not found; a
\* resources/read is decided by the one resource slot, whatever the URI,
\* which goes to the handler.
C18_IndependentKeySpaces ==
    /\ [](/\ KeysIn(registry["resource_handlers"]) \subseteq {DEFAULT_KEY}
          /\ KeysIn(registry["tool_handlers"]) \subseteq Names
          /\ KeysIn(registry["prompt_handlers"]) \subseteq Names)
    /\ [][\A c \in Cat :
            registry'[c] # registry[c] =>
                /\ \A x \in Cat \ {c} : registry'[x] = registry[x]
                /\ \E r \in Registrars : \E a \in workload[r] :
                      /\ a.cat = c
                      /\ registry'[c] =
                            {e \in registry[c] : e[1] # a.key} \cup {<<a.key, a.h>>}]_vars
    /\ [][\A l \in Loops :
            LookupStep(l) =>
                LET req == request'[l]
                    m == req.method IN
                /\ m = "tools/call" =>
                      AfterLookup(l, "tool_handlers", req.params.name)
                /\ m = "prompts/get" =>
                      AfterLookup(l, "prompt_handlers", req.params.name)
                /\ m = "resources/read" =>
                      /\ AfterLookup(l, "resource_handlers", DEFAULT_KEY)
                      /\ typed'[l] = req.params.uri
                      /\ registry["resource_handlers"] # HashMap_new =>
                            pc'[l] = "invoke"]_vars

\* With handlers set for the prompt "a" and for resources but for no tool,
\* a tools/call of "a" is answered not found while a resources/read of the
\* URI "b" runs the resource handler.
C18_Witness ==
    \E l1, l2 \in Loops :
        /\ registry["tool_handlers"] = HashMap_new
        /\ HashMap_get(registry["prompt_handlers"], "a") # None
        /\ pc[l1] = "send" /\ request[l1].method = "tools/call"
        /\ request[l1].params.name = "a"
        /\ response[l1] = JsonRpcResponse_error(request[l1].id,
               McpError_method_not_found(<<"Tool not found: ", "a">>))
        /\ pc[l2] = "invoke" /\ request[l2].method = "resources/read"
        /\ request[l2].params.uri = "b"
        /\ running[l2] = Some(Registration("resource_handlers", DEFAULT_KEY, "h1"))

\* C19: each map has its own lock.  The read guards of the lock of a map
\* are those of the loops awaiting a handler of that map; a set_*_handler
\* call waits only when a guard of its own map is out or a task is queued
\* there, a lookup only when a writer is queued on its own map, and every
\* waiting task is in the queue of its own map and of no other.  So a
\* handler in flight on one map, returning or not, delays nothing on the
\* other two.
C19_OtherCategoriesNotDelayed ==
    /\ [](\A c \in Cat :
            lockReaders[c] =
                {l \in Loops : HandlerRunning(l) /\ Unwrap(running[l]).cat = c})
    /\ [](\A c \in Cat :
            /\ \A r \in Registrars :
                  Position(c, r) > 0 <=> (regPc[r] = "write_wait" /\ regArg[r].cat = c)
            /\ \A l \in Loops :
                  Position(c, l) > 0 <=>
                      (pc[l] = "read_wait" /\ CatOfMethod(request[l].method) = c))
    /\ [][\A r \in Registrars :
            (regPc[r] = "idle" /\ regPc'[r] = "write_wait") =>
                \/ lockReaders[regArg'[r].cat] # {}
                \/ lockQueue[regArg'[r].cat] # <<>>]_vars
    /\ [][\A l \in Loops :
            (pc[l] = "receive" /\ pc'[l] = "read_wait") =>
                WriterQueued(CatOfMethod(request'[l].method))]_vars

\* The handler of a tools/call never returns; with it in flight a
\* prompts/get is awaiting its handler and the resource handler is set,
\* no task waiting.
C19_Witness ==
    \E l1, l2 \in Loops :
        /\ pc[l1] = "hung" /\ request[l1].method = "tools/call"
        /\ pc[l2] = "invoke" /\ request[l2].method = "prompts/get"
        /\ running[l2] = Some(Registration("prompt_handlers", "a", "h1"))
        /\ lastCompleted["resource_handlers"][DEFAULT_KEY] # None
        /\ \A r \in Registrars : regPc[r] = "idle"
        /\ \A c \in Cat : lockQueue[c] = <<>>

\* C20: the maps start empty and only grow: no step takes a key out of a
\* map, and once a set_*_handler for a key has completed a lookup of that
\* key finds a handler, so the call is not answered not-found.
C20_RegistryOnlyGrows ==
    /\ \A c \in Cat : registry[c] = HashMap_new
    /\ [][\A c \in Cat : KeysIn(registry[c]) \subseteq KeysIn(registry'[c])]_vars
    /\ [][\A c \in Cat : \A k \in Keys :
            lastCompleted[c][k] # None => lastCompleted'[c][k] # None]_vars
    /\ [](\A c \in Cat : \A k \in Keys :
            lastCompleted[c][k] # None => k \in KeysIn(registry[c]))
    /\ [][\A l \in Loops :
            (LookupStep(l) /\ lastCompleted[CatOfMethod(request'[l].method)]
                                           [KeyOf(request'[l])] # None) =>
                /\ pc'[l] = "invoke"
                /\ response'[l].error = None]_vars

\* Tool "a" was set, then replaced, and tool "b" was set; a call of "a"
\* made after that is awaiting its handler.
C20_Witness ==
    \E l \in Loops :
        /\ KeysIn(registry["tool_handlers"]) = {"a", "b"}
        /\ lastCompleted["tool_handlers"]["a"] = Some("h2")
        /\ pc[l] = "invoke" /\ request[l].method = "tools/call"
        /\ request[l].id = 2
        /\ running[l] = Some(Registration("tool_handlers", "a", "h2"))

====
